---- MODULE Spec2Model ----
(***************************************************************************)
(* horst3: a disk cache in front of S3.                                    *)
(*   src/src/cache.rs           Cache (lock, paths, touch, copy, eviction) *)
(*   src/src/s3.rs              S3Url::download (hit / admission / bypass) *)
(*   src/src/bin/horst3_server.rs  the lookup handler                      *)
(* The cache root is modelled as a directory: a function from the names of *)
(* the files that exist to their metadata and content.  Every process has  *)
(* a program counter that walks through the statements of the operation it *)
(* runs; a process that is killed leaves the files as they are.            *)
(***************************************************************************)
EXTENDS Integers, Sequences, FiniteSets, TLC

\* cache_size_limit_in_bytes as the test fixes it (cache.rs:137)
Budget == 2

\* ----------------------------------------------------------------- bounds
MaxTime == 3       \* the wall clock stops at MaxTime
\* the wall clock at start; files found then have atimes 1..StartTime
StartTime == MaxTime - 1
\* one process that downloads and one that serves
Procs == {"client", "server"}
OpsOf(p) == IF p = "client" THEN {"download"} ELSE {"lookup", "copy"}
NoMd5 == ""                      \* HeadObjectMetadata.md5sum = None
LockName == "lock"

\* The objects of the bucket, as head_object describes them (s3.rs:13-19):
\* md5sum (a fixed-length hexadecimal string, horst3_server.rs:19-31, or
\* none), content_length, and last_modified, which lies before the model's
\* clock starts.  The md5sum is a checksum of the content, so objects with
\* the same md5sum have the same bytes.  Two objects of one byte, one that
\* fills the budget, one that exceeds it, and one without md5sum.
Bucket ==
  { [md5sum |-> "a1", content_length |-> 1, last_modified |-> 0],
    [md5sum |-> "b2", content_length |-> 1, last_modified |-> 0],
    [md5sum |-> "c3", content_length |-> Budget, last_modified |-> 0],
    [md5sum |-> "d4", content_length |-> Budget + 1, last_modified |-> 0],
    [md5sum |-> NoMd5, content_length |-> 1, last_modified |-> 0] }
Keys == {o.md5sum : o \in Bucket} \ {NoMd5}
ObjectOf(md5sum) == CHOOSE o \in Bucket : o.md5sum = md5sum

\* ------------------------------------------------------------------ paths
\* Cache::path: root.join(md5sum); a path is identified by its file name
path(md5sum) == md5sum

\* a temporary path that is the permanent one
temporary_path_Permanent(md5sum) == path(md5sum)

\* Cache::temporary_path: root.join(format!("{}.tmp", md5sum))
temporary_path(md5sum) == md5sum \o ".tmp"

\* ---------------------------------------------------------------- objects
\* no object
NoHead == [md5sum |-> NoMd5, content_length |-> 0, last_modified |-> 0]
LockObj == [md5sum |-> LockName, content_length |-> 0, last_modified |-> 0]

\* A file holds the first `size` bytes of `obj`.
Complete(file) == file.size = file.obj.content_length

VARIABLES
  files,   \* the cache root: name -> [size, atime, mtime, obj], for the files that exist
  now,     \* wall clock, whole seconds
  pc,      \* per process: the statement it is at
  op,      \* per process: the operation it runs
  head,    \* per process: the object (download) or the md5sum (lookup, copy) it works on
  cache,   \* per process: TRUE while its Cache value (and so its Lockfile) is alive
  space,   \* per process: what make_space returned
  res,     \* per process: the operation's result
  dst      \* the callers' destination files: process -> [size, obj], where one exists

vars == <<files, now, pc, op, head, cache, space, res, dst>>

\* -------------------------------------------------------- directory tools
Remove(f, name) == [x \in (DOMAIN f) \ {name} |-> f[x]]
Put(f, name, file) == [x \in (DOMAIN f) \cup {name} |-> IF x = name THEN file ELSE f[x]]

\* an enumeration that does not skip the lock file
Entries_WithLock(f) == DOMAIN f

\* fs::read_dir(root) without the entry named "lock" (cache.rs:90-96)
Entries(f) == (DOMAIN f) \ {LockName}

RECURSIVE SumSizes(_, _)
SumSizes(f, S) ==
  IF S = {} THEN 0
  ELSE LET x == CHOOSE y \in S : TRUE IN f[x].size + SumSizes(f, S \ {x})

\* Cache::contains: path(md5sum).exists()
contains(f, md5sum) == path(md5sum) \in DOMAIN f

\* ------------------------------------------------------------------- lock
\* a lock that is taken whether or not the file exists
Lockfile_create_Overwrite(f, t) ==
  [ok |-> TRUE,
   files |-> Put(f, LockName, [size |-> 0, atime |-> t, mtime |-> t, obj |-> LockObj])]

\* Lockfile::create(root.join("lock")): the file is created only if no file of
\* that name exists (cache.rs:49-50)
Lockfile_create(f, t) ==
  IF LockName \in DOMAIN f
    THEN [ok |-> FALSE, files |-> f]
    ELSE [ok |-> TRUE,
          files |-> Put(f, LockName, [size |-> 0, atime |-> t, mtime |-> t, obj |-> LockObj])]

\* the Lockfile is dropped with the Cache that owns it: the file is removed
Lockfile_drop(f) == Remove(f, LockName)

\* ------------------------------------------------------------------ touch
\* a set_file_atime that writes the new time as modification time too
set_file_atime_SetsMtime(f, name, atime) ==
  IF name \notin DOMAIN f
    THEN [ok |-> FALSE, files |-> f]
    ELSE [ok |-> TRUE, files |-> [f EXCEPT ![name].atime = atime, ![name].mtime = atime]]

\* set_file_atime: read (atime, mtime), write (new atime, mtime); fails on a
\* missing file
set_file_atime(f, name, atime) ==
  IF name \notin DOMAIN f
    THEN [ok |-> FALSE, files |-> f]
    ELSE [ok |-> TRUE, files |-> [f EXCEPT ![name].atime = atime]]

\* a touch that creates the file it does not find
touch_Creates(f, md5sum, t) ==
  IF path(md5sum) \in DOMAIN f
    THEN set_file_atime(f, path(md5sum), t)
    ELSE [ok |-> TRUE,
          files |-> Put(f, path(md5sum), [size |-> 0, atime |-> t, mtime |-> t,
                                           obj |-> ObjectOf(md5sum)])]

\* Cache::touch
touch(f, md5sum, t) == set_file_atime(f, path(md5sum), t)

\* a copy that touches the entry and copies nothing
copy_TouchOnly(f, d, who, md5sum, t, fault) ==
  IF path(md5sum) \in DOMAIN f
    THEN [files |-> set_file_atime(f, path(md5sum), t).files, dst |-> d, res |-> "Ok"]
    ELSE [files |-> f, dst |-> d, res |-> "TouchError"]

\* a copy that copies first and touches the entry only after a successful copy
copy_CopyFirst(f, d, who, md5sum, t, fault) ==
  IF fault = "clock" THEN [files |-> f, dst |-> d, res |-> "TimestampError"]
  ELSE IF path(md5sum) \notin DOMAIN f \/ fault = "touch"
    THEN [files |-> f, dst |-> d, res |-> "TouchError"]
  ELSE IF fault = "copy"
    THEN [files |-> f, dst |-> d, res |-> "CopyError"]
  ELSE IF fault = "copy_truncated"
    THEN [files |-> f,
          dst |-> Put(d, who, [size |-> 0, obj |-> f[path(md5sum)].obj]),
          res |-> "CopyError"]
  ELSE [files |-> touch(f, md5sum, t).files,
        dst |-> Put(d, who, [size |-> f[path(md5sum)].size, obj |-> f[path(md5sum)].obj]),
        res |-> "Ok"]

\* Cache::copy: touch, then fs::copy(src_path, dst_path).  `fault` is the I/O
\* fault the environment injects: none, the clock, the utime call or the copy.
\* A failed fs::copy may leave a truncated destination behind.
copy(f, d, who, md5sum, t, fault) ==
  IF fault = "clock" THEN [files |-> f, dst |-> d, res |-> "TimestampError"]
  ELSE LET touched == touch(f, md5sum, t) IN
    IF ~touched.ok \/ fault = "touch"
      THEN [files |-> f, dst |-> d, res |-> "TouchError"]
    ELSE IF fault = "copy"
      THEN [files |-> touched.files, dst |-> d, res |-> "CopyError"]
    ELSE IF fault = "copy_truncated"
      THEN [files |-> touched.files,
            dst |-> Put(d, who, [size |-> 0, obj |-> f[path(md5sum)].obj]),
            res |-> "CopyError"]
    ELSE [files |-> touched.files,
          dst |-> Put(d, who, [size |-> f[path(md5sum)].size, obj |-> f[path(md5sum)].obj]),
          res |-> "Ok"]

CopyFaults == {"none", "clock", "touch", "copy", "copy_truncated"}

\* --------------------------------------------------------------- eviction
\* Cache::get_least_recently_used: a BTreeMap<u64, PathBuf> filled by
\* map.insert(atime, path) over read_dir.  An insert under a key already
\* present replaces the path; read_dir's order is unspecified, so for each
\* atime any one of the files with that atime may be the one that stays.
get_least_recently_used(f) ==
  LET T == {f[x].atime : x \in Entries(f)} IN
  {m \in [T -> Entries(f)] : \A t \in T : f[m[t]].atime = t}

RECURSIVE Ascending(_)
Ascending(T) ==
  IF T = {} THEN <<>>
  ELSE LET t == CHOOSE x \in T : \A y \in T : x <= y IN <<t>> \o Ascending(T \ {t})

\* map.iter(): the paths in ascending order of their keys
map_iter(map) == [i \in 1..Cardinality(DOMAIN map) |-> map[Ascending(DOMAIN map)[i]]]

\* the loop of make_space (cache.rs:113-125); the I/O call on entry number
\* failAt fails (0: none does)
RECURSIVE evict(_, _, _, _, _)
evict(f, paths, num_bytes_freed, num_bytes, failAt) ==
  IF paths = <<>> THEN [files |-> f, ret |-> "false"]
  ELSE IF failAt = 1 THEN [files |-> f, ret |-> "MakeSpaceError"]
  ELSE LET p0 == Head(paths)
           freed == num_bytes_freed + f[p0].size
       IN IF freed >= num_bytes
            THEN [files |-> Remove(f, p0), ret |-> "true"]
            ELSE evict(Remove(f, p0), Tail(paths), freed, num_bytes, failAt - 1)

\* a make_space that answers true for every size within the limit and evicts
\* nothing
make_space_NoEvict(f, num_bytes, map, failAt) ==
  IF num_bytes > Budget THEN [files |-> f, ret |-> "false"]
  ELSE IF failAt = -1 THEN [files |-> f, ret |-> "ScanError"]
  ELSE [files |-> f, ret |-> "true"]

\* make_space without its check against the cache limit
make_space_NoLimitCheck(f, num_bytes, map, failAt) ==
  IF failAt = -1 THEN [files |-> f, ret |-> "ScanError"]
  ELSE evict(f, map_iter(map), 0, num_bytes, failAt)

\* Cache::make_space.  `map` is what get_least_recently_used returned and
\* failAt the injected fault: -1 the scan fails, 0 nothing fails, i > 0 the
\* metadata or remove_file call on the i-th entry fails.
make_space(f, num_bytes, map, failAt) ==
  IF num_bytes > Budget THEN [files |-> f, ret |-> "false"]
  ELSE IF failAt = -1 THEN [files |-> f, ret |-> "ScanError"]
  ELSE evict(f, map_iter(map), 0, num_bytes, failAt)

\* ----------------------------------------------------------------- rename
\* fs::rename(tmp_path, final_path)
fs_rename(f, from, to) == Put(Remove(f, from), to, f[from])

\* ------------------------------------------------------------------- Init
\* The root as a process finds it: no lock, and for any of the objects that
\* fit the budget its file, left by earlier runs and last used at some time
\* up to now (the test writes its files the same way, cache.rs:144-153).
\* InitFiles: which keys are there, and the access time of each.
InitFiles ==
  UNION {[S -> 1..StartTime] : S \in SUBSET {k \in Keys : ObjectOf(k).content_length <= Budget}}

\* the file of an object admitted earlier and last used at time t
Admitted(md5sum, t) ==
  [size |-> ObjectOf(md5sum).content_length, atime |-> t,
   mtime |-> ObjectOf(md5sum).last_modified, obj |-> ObjectOf(md5sum)]

Init ==
  /\ \E at \in InitFiles : files = [k \in DOMAIN at |-> Admitted(k, at[k])]
  /\ now = StartTime
  /\ pc = [p \in Procs |-> "idle"]
  /\ op = [p \in Procs |-> "none"]
  /\ head = [p \in Procs |-> NoHead]
  /\ cache = [p \in Procs |-> FALSE]
  /\ space = [p \in Procs |-> "none"]
  /\ res = [p \in Procs |-> "none"]
  /\ dst = [p \in {} |-> [size |-> 0, obj |-> NoHead]]

\* ---------------------------------------------------------------- actions
\* The operation returns r with the root as f: its Cache, if it has one, goes
\* out of scope and the Lockfile is dropped.
Finish(p, r, f) ==
  /\ files' = IF cache[p] THEN Lockfile_drop(f) ELSE f
  /\ cache' = [cache EXCEPT ![p] = FALSE]
  /\ pc' = [pc EXCEPT ![p] = "done"]
  /\ res' = [res EXCEPT ![p] = r]

\* No operation has returned a result that its caller has yet to take.
NoneDone == \A q \in Procs : pc[q] # "done"

\* The client starts S3Url::download(path); the server starts its lookup
\* handler, or Cache::open followed by Cache::copy.
Start(p) ==
  /\ NoneDone
  /\ pc[p] = "idle"
  /\ \E o \in OpsOf(p) :
       /\ op' = [op EXCEPT ![p] = o]
       /\ pc' = [pc EXCEPT ![p] = IF o = "download" THEN "head_object" ELSE "cache_open"]
       /\ IF o = "download"
            THEN head' = [head EXCEPT ![p] = NoHead]
            ELSE \E k \in Keys : head' = [head EXCEPT ![p] = [NoHead EXCEPT !.md5sum = k]]
  /\ UNCHANGED <<files, now, cache, space, res, dst>>

\* The caller takes the result and the destination file of a finished
\* operation, before anything else runs.
Return(p) ==
  /\ pc[p] = "done"
  /\ pc' = [pc EXCEPT ![p] = "idle"]
  /\ op' = [op EXCEPT ![p] = "none"]
  /\ head' = [head EXCEPT ![p] = NoHead]
  /\ space' = [space EXCEPT ![p] = "none"]
  /\ res' = [res EXCEPT ![p] = "none"]
  /\ dst' = Remove(dst, p)
  /\ UNCHANGED <<files, now, cache>>

\* the wall clock
Tick ==
  /\ NoneDone
  /\ now < MaxTime
  /\ now' = now + 1
  /\ UNCHANGED <<files, pc, op, head, cache, space, res, dst>>

\* s3.rs:81-90: head_object of one of the bucket's objects, then the branch
\* on md5sum
HeadObjectStep(p) ==
  /\ NoneDone
  /\ pc[p] = "head_object"
  /\ \/ /\ Finish(p, "CommandFailed", files)
        /\ UNCHANGED <<head>>
     \/ \E h \in Bucket :
          /\ head' = [head EXCEPT ![p] = h]
          /\ pc' = [pc EXCEPT ![p] = IF h.md5sum = NoMd5 THEN "download_direct" ELSE "cache_open"]
          /\ UNCHANGED <<files, cache, res>>
  /\ UNCHANGED <<now, op, space, dst>>

\* Cache::open: Configuration::open, then Lockfile::create
CacheOpen(p) ==
  /\ NoneDone
  /\ pc[p] = "cache_open"
  /\ \/ Finish(p, "ConfigurationError", files)
     \/ LET l == Lockfile_create(files, now) IN
          IF l.ok
            THEN /\ files' = l.files
                 /\ cache' = [cache EXCEPT ![p] = TRUE]
                 /\ pc' = [pc EXCEPT ![p] = CASE op[p] = "download" -> "contains"
                                              [] op[p] = "copy" -> "copy"
                                              [] OTHER -> "touch"]
                 /\ UNCHANGED res
            ELSE Finish(p, "LockError", files)
  /\ UNCHANGED <<now, op, head, space, dst>>

\* s3.rs:93: if cache.contains(md5sum)
Contains(p) ==
  /\ NoneDone
  /\ pc[p] = "contains"
  /\ pc' = [pc EXCEPT ![p] = IF contains(files, head[p].md5sum) THEN "copy" ELSE "make_space"]
  /\ UNCHANGED <<files, now, op, head, cache, space, res, dst>>

\* s3.rs:94 (a hit) or a direct call: cache.copy(md5sum, path)
Copy(p) ==
  /\ NoneDone
  /\ pc[p] = "copy"
  /\ \E fault \in CopyFaults :
       LET r == copy(files, dst, p, head[p].md5sum, now, fault) IN
         /\ Finish(p, r.res, r.files)
         /\ dst' = r.dst
  /\ UNCHANGED <<now, op, head, space>>

\* s3.rs:96-97, 115-116: match cache.make_space(head.content_length)
MakeSpace(p) ==
  /\ NoneDone
  /\ pc[p] = "make_space"
  /\ \E map \in get_least_recently_used(files) :
       \E failAt \in -1..Cardinality(DOMAIN map) :
         LET r == make_space(files, head[p].content_length, map, failAt) IN
           /\ space' = [space EXCEPT ![p] = r.ret]
           /\ IF r.ret \in {"true", "false"}
                THEN /\ files' = r.files
                     /\ pc' = [pc EXCEPT ![p] = IF r.ret = "true" THEN "fetch_tmp"
                                                                 ELSE "download_direct"]
                     /\ UNCHANGED <<cache, res>>
                ELSE Finish(p, r.ret, r.files)
  /\ UNCHANGED <<now, op, head, dst>>

\* s3.rs:99-100: download_direct(&tmp_path) starts.  Either `aws` cannot be
\* run (IoError, nothing written) or it starts to write the temporary file,
\* a new file whose modification time `aws s3 cp` sets to the object's.
FetchBegin(p) ==
  /\ NoneDone
  /\ pc[p] = "fetch_tmp"
  /\ \/ /\ res' = [res EXCEPT ![p] = "IoError"]
        /\ pc' = [pc EXCEPT ![p] = "remove_tmp"]
        /\ UNCHANGED files
     \/ /\ files' = Put(files, temporary_path(head[p].md5sum),
                        [size |-> 0, atime |-> now, mtime |-> head[p].last_modified, obj |-> head[p]])
        /\ pc' = [pc EXCEPT ![p] = "fetching"]
        /\ UNCHANGED res
  /\ UNCHANGED <<now, op, head, cache, space, dst>>

\* s3.rs:100, 109: download_direct(&tmp_path) ends: the whole object is in
\* the temporary file, or `aws` failed and left some bytes short of it
FetchEnd(p) ==
  /\ NoneDone
  /\ pc[p] = "fetching"
  /\ LET tmp == temporary_path(head[p].md5sum)
         len == head[p].content_length
     IN \/ /\ files' = [files EXCEPT ![tmp].size = len]
           /\ pc' = [pc EXCEPT ![p] = "rename"]
           /\ UNCHANGED res
        \/ \E s \in 0..(IF len = 0 THEN 0 ELSE len - 1) :
             /\ files' = [files EXCEPT ![tmp].size = s]
             /\ pc' = [pc EXCEPT ![p] = "remove_tmp"]
             /\ res' = [res EXCEPT ![p] = "CommandFailed"]
  /\ UNCHANGED <<now, op, head, cache, space, dst>>

\* s3.rs:101-108: fs::remove_file(&tmp_path), its failure only logged, then
\* Err(err) with the error of download_direct
RemoveTmp(p) ==
  /\ NoneDone
  /\ pc[p] = "remove_tmp"
  /\ LET tmp == temporary_path(head[p].md5sum) IN
       \/ Finish(p, res[p], IF tmp \in DOMAIN files THEN Remove(files, tmp) ELSE files)
       \/ Finish(p, res[p], files)
  /\ UNCHANGED <<now, op, head, space, dst>>

\* a rename whose failure removes the temporary file
Rename_CleansUp(p) ==
  /\ NoneDone
  /\ pc[p] = "rename"
  /\ \/ Finish(p, "Ok", fs_rename(files, temporary_path(head[p].md5sum), path(head[p].md5sum)))
     \/ Finish(p, "MoveError", Remove(files, temporary_path(head[p].md5sum)))
  /\ UNCHANGED <<now, op, head, space, dst>>

\* s3.rs:110-112: fs::rename(tmp_path, final_path).map_err(S3Error::MoveError)
Rename(p) ==
  /\ NoneDone
  /\ pc[p] = "rename"
  /\ \/ Finish(p, "Ok", fs_rename(files, temporary_path(head[p].md5sum), path(head[p].md5sum)))
     \/ Finish(p, "MoveError", files)
  /\ UNCHANGED <<now, op, head, space, dst>>

\* s3.rs:89, 115: download_direct(path) to the caller's destination
DownloadDirect(p) ==
  /\ NoneDone
  /\ pc[p] = "download_direct"
  /\ \/ /\ dst' = Put(dst, p, [size |-> head[p].content_length, obj |-> head[p]])
        /\ Finish(p, "Ok", files)
     \/ /\ dst' = Put(dst, p, [size |-> 0, obj |-> head[p]])
        /\ Finish(p, "CommandFailed", files)
     \/ /\ UNCHANGED dst
        /\ Finish(p, "IoError", files)
  /\ UNCHANGED <<now, op, head, space>>

\* horst3_server.rs:41-43: cache.touch(&inputs.md5sum)?, then the block ends
\* and the Cache is dropped
SrvTouch(p) ==
  /\ NoneDone
  /\ pc[p] = "touch"
  /\ LET touched == touch(files, head[p].md5sum, now) IN
       \/ Finish(p, "TimestampError", files)
       \/ Finish(p, "TouchError", files)
       \/ /\ touched.ok
          /\ files' = Lockfile_drop(touched.files)
          /\ cache' = [cache EXCEPT ![p] = FALSE]
          /\ pc' = [pc EXCEPT ![p] = "named_file"]
          /\ UNCHANGED res
  /\ UNCHANGED <<now, op, head, space, dst>>

\* horst3_server.rs:45: NamedFile::open(path), streamed back to the caller
NamedFileOpen(p) ==
  /\ NoneDone
  /\ pc[p] = "named_file"
  /\ LET name == path(head[p].md5sum) IN
       IF name \in DOMAIN files
         THEN /\ dst' = Put(dst, p, [size |-> files[name].size, obj |-> files[name].obj])
              /\ Finish(p, "Ok", files)
         ELSE /\ UNCHANGED dst
              /\ Finish(p, "NotFound", files)
  /\ UNCHANGED <<now, op, head, space>>

\* The process is killed while its operation runs: nothing of it runs any
\* more, no destructor either, and the files stay as they are.
Kill(p) ==
  /\ NoneDone
  /\ pc[p] # "idle"
  /\ pc' = [pc EXCEPT ![p] = "done"]
  /\ res' = [res EXCEPT ![p] = "killed"]
  /\ cache' = [cache EXCEPT ![p] = FALSE]
  /\ UNCHANGED <<files, now, op, head, space, dst>>

Next ==
  \/ Tick
  \/ \E p \in Procs :
       \/ Start(p)
       \/ Return(p)
       \/ HeadObjectStep(p)
       \/ CacheOpen(p)
       \/ Contains(p)
       \/ Copy(p)
       \/ MakeSpace(p)
       \/ FetchBegin(p)
       \/ FetchEnd(p)
       \/ RemoveTmp(p)
       \/ Rename(p)
       \/ DownloadDirect(p)
       \/ SrvTouch(p)
       \/ NamedFileOpen(p)
       \/ Kill(p)

Spec == Init /\ [][Next]_vars

\* A root that starts within its budget, as the test's root does
\* (cache.rs:137-153: a limit and files that fit it).
InitBudget == Init /\ SumSizes(files, Entries(files)) <= Budget

SpecBudget == InitBudget /\ [][Next]_vars


\* ================================================================= claims
\* the step in which p's call of make_space returns (to a value or an error)
MakeSpaceReturns(p) ==
  /\ pc[p] = "make_space"
  /\ pc'[p] # "make_space"
  /\ res'[p] # "killed"

\* the entries a step deletes, and their bytes
Deleted == Entries(files) \ DOMAIN files'
Freed == SumSizes(files, Deleted)

\* C1: make_space(n) with n greater than the budget returns false and leaves
\* the root exactly as it was: the same files with the same sizes and times.
C1_OverBudgetDeletesNothing ==
  [][\A p \in Procs :
       (MakeSpaceReturns(p) /\ head[p].content_length > Budget)
         => (space'[p] = "false" /\ files' = files)]_vars

\* make_space has returned false for an object larger than the budget, in a
\* root that holds entries
C1_Witness ==
  \E p \in Procs :
    /\ pc[p] = "download_direct"
    /\ space[p] = "false"
    /\ head[p].content_length > Budget
    /\ Entries(files) # {}

\* C2: for n <= budget, whenever the entries of the root occupy at least n
\* bytes, make_space(n) returns true and the entries it deleted sum to at
\* least n bytes (no I/O call failing).
C2_EnoughOccupiedGivesTrue ==
  [][\A p \in Procs :
       (/\ MakeSpaceReturns(p)
        /\ space'[p] \in {"true", "false"}
        /\ head[p].content_length <= Budget
        /\ SumSizes(files, Entries(files)) >= head[p].content_length)
         => (space'[p] = "true" /\ Freed >= head[p].content_length)]_vars

\* C3: make_space evicts in least-recently-used order and stops as soon as
\* enough is freed: every deleted entry is at most as recent as every
\* surviving one, and the deleted entries are the shortest oldest-first
\* prefix that reaches n: where the entries hold n bytes at all, the deleted
\* ones sum to at least n, and without the newest of them to less than n.
C3_EvictsOldestFirstPrefix ==
  [][\A p \in Procs :
       (MakeSpaceReturns(p) /\ space'[p] \in {"true", "false"}
          /\ head[p].content_length <= Budget)
         => /\ \A d \in Deleted : \A e \in Entries(files') :
                 files[d].atime <= files[e].atime
            /\ SumSizes(files, Entries(files)) >= head[p].content_length =>
                 /\ Freed >= head[p].content_length
                 /\ \E d \in Deleted :
                      /\ \A x \in Deleted : files[x].atime <= files[d].atime
                      /\ Freed - files[d].size < head[p].content_length]_vars

\* C4: the enumeration that eviction uses has one element for every file of
\* the root other than the lock, also when files share an access time.
C4_EnumerationKeepsEveryEntry ==
  \A p \in Procs :
    pc[p] = "make_space" =>
      \A map \in get_least_recently_used(files) :
        Cardinality(DOMAIN map) = Cardinality(Entries(files))


\* p is between its miss and the end of its admission
Admitting(p) == pc[p] \in {"make_space", "fetch_tmp", "fetching", "remove_tmp", "rename"}

\* C5: a file under the permanent path of a key holds the complete object of
\* that key; a key becomes visible only by the rename that ends its
\* admission, and is not visible at any point of the admission before it.
C5_PermanentFilesAreComplete ==
  /\ [](\A k \in Keys : contains(files, k) =>
          (Complete(files[path(k)]) /\ files[path(k)].obj = ObjectOf(k)))
  /\ [](\A p \in Procs : Admitting(p) => ~contains(files, head[p].md5sum))
  /\ [][\A k \in Keys :
          (~contains(files, k) /\ contains(files', k))
            => \E p \in Procs : pc[p] = "rename" /\ head[p].md5sum = k /\ res'[p] = "Ok"]_vars

\* an admission is under way: part of the object is in the temporary file
C5_Witness ==
  \E p \in Procs :
    /\ pc[p] = "fetching"
    /\ temporary_path(head[p].md5sum) \in DOMAIN files
    /\ ~Complete(files[temporary_path(head[p].md5sum)])

DirectErrors == {"IoError", "CommandFailed"}

\* C6: if the write to the temporary path fails, download returns that
\* failure and no entry exists under the permanent key; if the rename fails,
\* download returns a move error, the temporary file still exists and the
\* permanent key is still absent.
C6_AdmissionAtomicUnderFailure ==
  [][\A p \in Procs :
       /\ (pc[p] = "remove_tmp" /\ pc'[p] # "remove_tmp" /\ res'[p] # "killed")
            => /\ pc'[p] = "done"
               /\ res[p] \in DirectErrors
               /\ res'[p] = res[p]
               /\ ~contains(files', head[p].md5sum)
       /\ (pc[p] = "rename" /\ pc'[p] # "rename" /\ res'[p] \notin {"killed", "Ok"})
            => /\ pc'[p] = "done"
               /\ res'[p] = "MoveError"
               /\ temporary_path(head[p].md5sum) \in DOMAIN files'
               /\ files'[temporary_path(head[p].md5sum)] = files[temporary_path(head[p].md5sum)]
               /\ ~contains(files', head[p].md5sum)]_vars

\* a download has returned the move error
C6_Witness ==
  \E p \in Procs :
    /\ pc[p] = "done"
    /\ res[p] = "MoveError"
    /\ temporary_path(head[p].md5sum) \in DOMAIN files
    /\ ~contains(files, head[p].md5sum)

\* C7: after a successful admission of key k the cache contains k, and
\* copy(k, dst) succeeds and leaves in dst exactly the bytes written for k.
C7_AdmittedIsCopiedBack ==
  [][\A p \in Procs :
       (pc[p] = "rename" /\ pc'[p] = "done" /\ res'[p] = "Ok")
         => LET k == head[p].md5sum
                r == copy(files', dst', p, k, now', "none")
            IN /\ space[p] = "true"
               /\ contains(files', k)
               /\ r.res = "Ok"
               /\ p \in DOMAIN r.dst
               /\ r.dst[p] = [size |-> head[p].content_length, obj |-> head[p]]]_vars

\* an admission has succeeded
C7_Witness ==
  \E p \in Procs :
    /\ pc[p] = "done"
    /\ op[p] = "download"
    /\ space[p] = "true"
    /\ res[p] = "Ok"
    /\ contains(files, head[p].md5sum)

\* C8: at most one Cache is open on the root at any time, and while one is
\* open every further open fails (with the lock error, once its
\* configuration is read) instead of blocking or succeeding.
C8_OneCacheAtATime ==
  /\ [](Cardinality({p \in Procs : cache[p]}) <= 1)
  /\ []((\E q \in Procs : cache[q]) => ~Lockfile_create(files, now).ok)
  /\ [][\A p \in Procs :
          (pc[p] = "cache_open" /\ pc'[p] # "cache_open" /\ \E q \in Procs : cache[q])
            => /\ pc'[p] = "done"
               /\ ~cache'[p]
               /\ res'[p] \in {"LockError", "ConfigurationError", "killed"}]_vars

\* an open has failed with the lock error while another Cache is open
C8_Witness ==
  \E p, q \in Procs :
    /\ p # q
    /\ cache[q]
    /\ pc[p] = "done"
    /\ res[p] = "LockError"

\* C9: the lock is released on every exit path of an operation that opened
\* the cache, process exit included: when no operation holds a Cache, the
\* lock file is gone, so that the next open succeeds.
C9_LockReleasedOnEveryExit ==
  (\A p \in Procs : ~cache[p]) => LockName \notin DOMAIN files

\* C10: for a key with no file under its permanent path, contains is false
\* and copy returns an error and neither creates nor writes dst.
C10_MissingKey ==
  [][\A p \in Procs :
       ~contains(files, head[p].md5sum) =>
         /\ (pc[p] = "contains" /\ pc'[p] \notin {"contains", "done"})
              => pc'[p] = "make_space"
         /\ (pc[p] = "copy" /\ pc'[p] # "copy" /\ res'[p] # "killed")
              => /\ res'[p] \in {"TouchError", "TimestampError"}
                 /\ dst' = dst
                 /\ ~contains(files', head[p].md5sum)]_vars

\* a copy of a missing key has returned its error
C10_Witness ==
  \E p \in Procs :
    /\ pc[p] = "done"
    /\ op[p] = "copy"
    /\ res[p] = "TouchError"
    /\ ~contains(files, head[p].md5sum)
    /\ p \notin DOMAIN dst

\* the entries of the root with their sizes, times and content
EntriesOf(f) == [x \in Entries(f) |-> f[x]]

\* the object cannot be cached: it has no md5sum or exceeds the budget
Bypass(h) == h.md5sum = NoMd5 \/ h.content_length > Budget

\* C11: a download of an object without md5sum or larger than the budget
\* goes around the cache: no step of it creates, deletes or changes an entry
\* (temporary or permanent) of the root, make_space answers false, and when
\* it succeeds the object was fetched directly to the destination.
C11_BypassLeavesCacheAlone ==
  [][\A p \in Procs :
       (op[p] = "download" /\ pc[p] \notin {"idle", "head_object", "done"}
          /\ Bypass(head[p]) /\ pc'[p] # pc[p])
         => /\ EntriesOf(files') = EntriesOf(files)
            /\ pc'[p] \notin {"copy", "fetch_tmp"}
            /\ res'[p] = "Ok" =>
                 /\ pc[p] = "download_direct"
                 /\ p \in DOMAIN dst'
                 /\ dst'[p] = [size |-> head[p].content_length, obj |-> head[p]]]_vars

\* an object larger than the budget has been downloaded past a root with entries
C11_Witness ==
  \E p \in Procs :
    /\ pc[p] = "done"
    /\ op[p] = "download"
    /\ res[p] = "Ok"
    /\ head[p].content_length > Budget
    /\ space[p] = "false"
    /\ Entries(files) # {}
    /\ p \in DOMAIN dst

\* the operation of p returns Ok from the step at `from`
ReturnsOk(p, from) == pc[p] = from /\ pc'[p] = "done" /\ res'[p] = "Ok"

\* C12: immediately after a successful copy of key k or a successful
\* admission of key k (the rename), k's access time is the time of that
\* operation and no entry of the root has a newer access time.
C12_TouchedOnReadAndAdmission ==
  [][\A p \in Procs :
       (ReturnsOk(p, "copy") \/ ReturnsOk(p, "rename"))
         => LET k == path(head[p].md5sum) IN
              /\ k \in DOMAIN files'
              /\ files'[k].atime = now
              /\ \A x \in Entries(files') : files'[x].atime <= files'[k].atime]_vars

\* p's call of touch has succeeded in this step: in the lookup handler, or in
\* a copy that got past its touch
Touches(p) ==
  \/ pc[p] = "touch" /\ pc'[p] = "named_file"
  \/ pc[p] = "copy" /\ pc'[p] = "done" /\ res'[p] \in {"Ok", "CopyError"}

\* C13: touch of an existing entry leaves its modification time, size and
\* content as they were and sets its access time to the time of the call; no
\* entry is added or removed and no other entry's times change.
C13_TouchSetsOnlyAtime ==
  [][\A p \in Procs :
       Touches(p)
         => LET k == path(head[p].md5sum) IN
              /\ k \in Entries(files)
              /\ Entries(files') = Entries(files)
              /\ \A x \in Entries(files) :
                   /\ files'[x].mtime = files[x].mtime
                   /\ files'[x].size = files[x].size
                   /\ files'[x].obj = files[x].obj
                   /\ files'[x].atime = IF x = k THEN now ELSE files[x].atime]_vars

\* the lookup handler has touched an entry last used before now, next to
\* another entry
C13_Witness ==
  \E p \in Procs :
    /\ pc[p] = "named_file"
    /\ contains(files, head[p].md5sum)
    /\ files[path(head[p].md5sum)].atime = now
    /\ files[path(head[p].md5sum)].mtime < now
    /\ now > StartTime
    /\ Cardinality(Entries(files)) > 1

\* C14: make_space(n) for an object that fits in the unoccupied part of the
\* budget (n plus the bytes of the entries is at most the budget, an empty
\* root included) returns true and deletes no entry, so the download goes on
\* to admit the object.
C14_FitsGivesTrueWithoutDeleting ==
  [][\A p \in Procs :
       (/\ MakeSpaceReturns(p)
        /\ space'[p] \in {"true", "false"}
        /\ SumSizes(files, Entries(files)) + head[p].content_length <= Budget)
         => /\ space'[p] = "true"
            /\ EntriesOf(files') = EntriesOf(files)
            /\ pc'[p] = "fetch_tmp"]_vars

\* C15: reads are serialized with evictions by the lock: once the lookup
\* handler has located and touched its file, the file is still in the root
\* when the handler opens it for streaming.
C15_LocatedFileStaysUntilOpened ==
  \A p \in Procs :
    (op[p] = "lookup" /\ pc[p] = "named_file") => contains(files, head[p].md5sum)

\* C16: a make_space(n) with n <= budget that answers false has deleted every
\* entry (the root then holds nothing but the lock marker); one that answers
\* with an eviction error has only deleted: what is left is as it was, and
\* nothing deleted has come back.
C16_PartialEvictionStays ==
  [][\A p \in Procs :
       (MakeSpaceReturns(p) /\ head[p].content_length <= Budget)
         => /\ space'[p] = "false" => Entries(files') = {}
            /\ space'[p] \in {"false", "MakeSpaceError"} =>
                 /\ Entries(files') \subseteq Entries(files)
                 /\ \A x \in Entries(files') : files'[x] = files[x]]_vars

\* C17: the lock marker is not cache content.  While a Cache is open the
\* file "lock" is in the root; no enumeration holds it, and a root with
\* nothing but the lock enumerates as empty; a make_space that returns true
\* or false leaves the lock file as it was and counts none of its bytes.
C17_LockIsNotContent ==
  /\ [](/\ \A p \in Procs : cache[p] => LockName \in DOMAIN files
        /\ \A map \in get_least_recently_used(files) :
             /\ \A t \in DOMAIN map : map[t] # LockName
             /\ DOMAIN files \subseteq {LockName} => DOMAIN map = {})
  /\ [][\A p \in Procs :
          (MakeSpaceReturns(p) /\ space'[p] \in {"true", "false"})
            => /\ LockName \in DOMAIN files /\ LockName \in DOMAIN files'
               /\ files'[LockName] = files[LockName]
               /\ LockName \notin Deleted
               /\ space'[p] = "true" => Freed >= head[p].content_length]_vars

\* make_space has run over a root that holds the lock and nothing else
C17_Witness ==
  \E p \in Procs :
    /\ cache[p] /\ pc[p] = "download_direct" /\ space[p] = "false"
    /\ head[p].content_length <= Budget
    /\ DOMAIN files = {LockName}

\* what copy does to the entry and the destination, by its result: a touch
\* failure (TouchError) copies nothing and changes nothing; a copy failure
\* (CopyError, another kind) comes after the touch and leaves the entry's
\* content, size and modification time as they were
CopyFails(p, accessTimeKept) ==
  LET k == path(head[p].md5sum) IN
    /\ res'[p] = "TouchError" => (dst' = dst /\ EntriesOf(files') = EntriesOf(files))
    /\ res'[p] = "CopyError" =>
         /\ k \in Entries(files) /\ k \in Entries(files')
         /\ files'[k].size = files[k].size
         /\ files'[k].obj = files[k].obj
         /\ files'[k].mtime = files[k].mtime
         /\ IF accessTimeKept THEN files'[k].atime = files[k].atime
                              ELSE files'[k].atime = now

\* p's copy returns in this step
CopyReturns(p) == pc[p] = "copy" /\ pc'[p] = "done" /\ res'[p] # "killed"

\* C18 as stated: a touch failure means no copy is attempted, and a copy
\* failure leaves the entry as it was before the call, its access time
\* included.
C18_CopyFailureLeavesEntryUntouched ==
  [][\A p \in Procs : CopyReturns(p) => CopyFails(p, TRUE)]_vars

\* C18 amended: copy touches first, so after a copy failure the entry's
\* content, size and modification time are as before the call while its
\* access time is already the time of the call; a touch failure means no
\* copy is attempted, and the two failures are distinct error kinds.
C18_CopyFailureKeepsAllButAtime ==
  [][\A p \in Procs : CopyReturns(p) => CopyFails(p, FALSE)]_vars

\* a copy has failed after its touch moved the entry's access time
C18_Witness ==
  \E p \in Procs :
    /\ pc[p] = "done" /\ res[p] = "CopyError"
    /\ contains(files, head[p].md5sum)
    /\ files[path(head[p].md5sum)].atime = now
    /\ now > StartTime

\* C19: whenever S3Url::download(path) returns success the destination holds
\* the object's bytes, whichever branch was taken: hit, admission or bypass.
C19_SuccessFillsDestination ==
  \A p \in Procs :
    (pc[p] = "done" /\ op[p] = "download" /\ res[p] = "Ok")
      => /\ p \in DOMAIN dst
         /\ dst[p] = [size |-> head[p].content_length, obj |-> head[p]]

\* the bytes of all files of the root other than the lock marker
TotalSize == SumSizes(files, Entries(files))

\* C20: from a root whose entries total at most the budget, downloads (hits,
\* admissions, bypasses, failed writes, failed renames) and lookups never
\* bring the total size of the files other than the lock above the budget,
\* and every make_space(n) that answers true has freed at least n bytes.
C20_TotalWithinBudget ==
  /\ [](TotalSize <= Budget)
  /\ [][\A p \in Procs :
          (MakeSpaceReturns(p) /\ space'[p] = "true")
            => (Freed >= head[p].content_length /\ pc'[p] = "fetch_tmp")]_vars

\* an admission has filled the budget: the object was admitted after
\* make_space freed its bytes, and the root holds exactly Budget bytes
C20_Witness ==
  \E p \in Procs :
    /\ pc[p] = "done" /\ op[p] = "download" /\ res[p] = "Ok" /\ space[p] = "true"
    /\ contains(files, head[p].md5sum)
    /\ TotalSize = Budget

====
